---- MODULE Spec2Model ----
(***************************************************************************)
(* Model of src/windows/com.rs: the COMPort handle (open, drop, read,      *)
(* write, flush, timeouts, line control) and the COMSettings block         *)
(* (translation between logical line settings and the DCB fields).         *)
(*                                                                         *)
(* Representation of machine integers.  TLC's integers are 32-bit signed,  *)
(* so a 64-bit value (u64, usize on a 64-bit target) is a record           *)
(* [hi, lo] of two 32-bit words and a DWORD is a plain integer; the cast   *)
(* `x as DWORD` keeps the low word.  The flag word DCB.fBits is the set of *)
(* the positions (0..31) of its one-bits, so that & is \cap, | is \cup and *)
(* ! is the complement in 0..31.                                           *)
(***************************************************************************)
EXTENDS Integers, Sequences, FiniteSets, TLC

VARIABLES
    ports,        \* the COMPort values the caller holds, one per slot
    os,           \* the operating system's side: handles, devices, timeouts
    ret,          \* the last COMPort operation and what it returned
    explicitSet,  \* per slot: the Duration of the last successful explicit set_timeout
    settings,     \* the COMSettings value the caller holds (its inner DCB)
    call          \* the last COMSettings setter called, with its argument

vars == <<ports, os, ret, explicitSet, settings, call>>

-----------------------------------------------------------------------------
(* Bounds *)

MaxPorts == 2
MaxHandles == 2
MaxLen == 1

Slots == 1..MaxPorts

-----------------------------------------------------------------------------
(* Option, Duration and 64-bit values *)

None == <<>>
Some(v) == <<v>>

U64(h, l) == [hi |-> h, lo |-> l]

AsDWORD(u) == u.lo

DWORDAsU64(n) == U64(0, n)

from_millis(ms) == [secs |-> ms \div 1000, nanos |-> (ms % 1000) * 1000000]

\* timeout.as_secs() * 1000 + timeout.subsec_nanos() as u64 / 1_000_000,
\* computed in 16-bit limbs so that no intermediate exceeds TLC's integers.
as_millis(d) ==
    LET sub == d.nanos \div 1000000
        sl  == d.secs % 65536
        sh  == d.secs \div 65536
        a   == (sl * 1000) + sub
        t   == (sh * 1000) + (a \div 65536)
    IN  U64(t \div 65536, ((t % 65536) * 65536) + (a % 65536))

-----------------------------------------------------------------------------
(* Device names: sequences of UTF-16 code units, 0 is NUL *)

COM1 == <<67, 79, 77, 49>>
COM2 == <<67, 79, 77, 50>>
COM9 == <<67, 79, 77, 57>>
COM1NulX == <<67, 79, 77, 49, 0, 88>>

DevicePrefix == <<92, 92, 46, 92>>

\* the names a caller passes to open
PortNames == {COM1, COM2, COM9, COM1NulX}

\* the device paths that exist on the machine
Devices == {DevicePrefix \o COM1, DevicePrefix \o COM2}

\* what the OS reads from a pointer to a NUL-terminated wide string
RECURSIVE CStr(_)
CStr(s) == IF s = <<>> \/ Head(s) = 0 THEN <<>> ELSE <<Head(s)>> \o CStr(Tail(s))

-----------------------------------------------------------------------------
(* The operating system *)

INVALID_HANDLE_VALUE == -1

CallErrors == {"ERROR_ACCESS_DENIED", "ERROR_GEN_FAILURE"}

NoTimeouts ==
    [ReadIntervalTimeout |-> 0, ReadTotalTimeoutMultiplier |-> 0,
     ReadTotalTimeoutConstant |-> 0,
     WriteTotalTimeoutMultiplier |-> 0, WriteTotalTimeoutConstant |-> 0]

OsInit ==
    [hdev     |-> <<>>,                        \* device of each handle issued
     live     |-> {},                          \* handles not yet closed
     closes   |-> <<>>,                        \* CloseHandle calls per handle
     badClose |-> FALSE,                       \* CloseHandle on a handle never issued
     timeouts |-> [d \in Devices |-> NoTimeouts],
     log      |-> <<>>]                        \* OS calls of the current operation

Logged(o, name) == [o EXCEPT !.log = Append(@, name)]

\* share mode 0: a device that is open cannot be opened again
CreateFileW(o, name) ==
    LET dev == CStr(name)
        o1  == Logged(o, "CreateFileW")
        h   == Len(o.hdev) + 1
    IN  IF dev \notin Devices
        THEN [os |-> o1, handle |-> INVALID_HANDLE_VALUE, errno |-> "ERROR_FILE_NOT_FOUND"]
        ELSE IF \E g \in o.live : o.hdev[g] = dev
        THEN [os |-> o1, handle |-> INVALID_HANDLE_VALUE, errno |-> "ERROR_ACCESS_DENIED"]
        ELSE [os |-> [o1 EXCEPT !.hdev = Append(@, dev), !.closes = Append(@, 0),
                                !.live = @ \cup {h}],
              handle |-> h, errno |-> "NONE"]

CloseHandle(o, h) ==
    LET o1 == Logged(o, "CloseHandle")
    IN  IF h \in 1..Len(o.hdev)
        THEN [o1 EXCEPT !.closes[h] = @ + 1, !.live = @ \ {h}]
        ELSE [o1 EXCEPT !.badClose = TRUE]

SetCommTimeouts(o, h, t, ok) ==
    LET o1 == Logged(o, "SetCommTimeouts")
    IN  IF ok THEN [o1 EXCEPT !.timeouts[o.hdev[h]] = t] ELSE o1

-----------------------------------------------------------------------------
(* Results *)

Ok(v) == [kind |-> "Ok", val |-> v]
Err(k, e) == [kind |-> k, val |-> e]

\* super::error::last_os_error
last_os_error(errno) ==
    IF errno \in {"ERROR_FILE_NOT_FOUND", "ERROR_PATH_NOT_FOUND", "ERROR_ACCESS_DENIED"}
    THEN Err("NoDevice", errno)
    ELSE Err("Io", errno)

\* io::Error::last_os_error
io_last_os_error(errno) == Err("Io", errno)

-----------------------------------------------------------------------------
(* COMPort *)

NoPort == [handle |-> INVALID_HANDLE_VALUE, timeout |-> from_millis(0)]

Live(s) == ports[s] # NoPort

timeout(port) == port.timeout

set_timeout_early(o, port, d, ok, errno) ==
    LET milliseconds == as_millis(d)
        timeouts == [NoTimeouts EXCEPT !.ReadTotalTimeoutConstant = AsDWORD(milliseconds)]
        o1 == SetCommTimeouts(o, port.handle, timeouts, ok)
    IN  [os |-> o1, port |-> [port EXCEPT !.timeout = d],
         res |-> IF ok THEN Ok(0) ELSE last_os_error(errno)]

set_timeout(o, port, d, ok, errno) ==
    LET milliseconds == as_millis(d)
        timeouts == [NoTimeouts EXCEPT !.ReadTotalTimeoutConstant = AsDWORD(milliseconds)]
        o1 == SetCommTimeouts(o, port.handle, timeouts, ok)
    IN  IF ~ok
        THEN [os |-> o1, port |-> port, res |-> last_os_error(errno)]
        ELSE [os |-> o1, port |-> [port EXCEPT !.timeout = d], res |-> Ok(0)]

drop_leak(o, port) == o

drop(o, port) == CloseHandle(o, port.handle)

open(o, name, ok, errno) ==
    LET path == DevicePrefix \o name \o <<0>>
        cf == CreateFileW(o, path)
        t == from_millis(100)
    IN  IF cf.handle # INVALID_HANDLE_VALUE
        THEN LET port == [handle |-> cf.handle, timeout |-> t]
                 st == set_timeout(cf.os, port, t, ok, errno)
             IN  IF st.res.kind # "Ok"
                 THEN [os |-> drop(st.os, st.port), port |-> NoPort, res |-> st.res]
                 ELSE [os |-> st.os, port |-> st.port, res |-> Ok(0)]
        ELSE [os |-> cf.os, port |-> NoPort, res |-> last_os_error(cf.errno)]

read_len_first(o, port, osret, len, errno) ==
    [os |-> Logged(o, "ReadFile"),
     res |-> IF len # 0 THEN Ok(len)
             ELSE IF osret = 0 THEN io_last_os_error(errno)
             ELSE Err("TimedOut", "Operation timed out")]

read(o, port, osret, len, errno) ==
    [os |-> Logged(o, "ReadFile"),
     res |-> IF osret = 0 THEN io_last_os_error(errno)
             ELSE IF len # 0 THEN Ok(len)
             ELSE Err("TimedOut", "Operation timed out")]

write(o, port, osret, len, errno) ==
    [os |-> Logged(o, "WriteFile"),
     res |-> IF osret = 0 THEN io_last_os_error(errno) ELSE Ok(len)]

flush(o, port, osret, errno) ==
    [os |-> Logged(o, "FlushFileBuffers"),
     res |-> IF osret = 0 THEN io_last_os_error(errno) ELSE Ok(0)]

escape_comm_function(o, port, function, osret, errno) ==
    [os |-> Logged(o, "EscapeCommFunction"),
     res |-> IF osret = 0 THEN last_os_error(errno) ELSE Ok(0)]

set_rts(o, port, level, osret, errno) ==
    IF level THEN escape_comm_function(o, port, "SETRTS", osret, errno)
    ELSE escape_comm_function(o, port, "CLRRTS", osret, errno)

read_pin(o, port, osret, status, pin, errno) ==
    [os |-> Logged(o, "GetCommModemStatus"),
     res |-> IF osret = 0 THEN last_os_error(errno) ELSE Ok(status \cap pin # {})]

-----------------------------------------------------------------------------
(* COMSettings: constants of the DCB *)

CBR_110 == 110
CBR_300 == 300
CBR_600 == 600
CBR_1200 == 1200
CBR_2400 == 2400
CBR_4800 == 4800
CBR_9600 == 9600
CBR_14400 == 14400
CBR_19200 == 19200
CBR_38400 == 38400
CBR_56000 == 56000
CBR_57600 == 57600
CBR_115200 == 115200
CBR_128000 == 128000
CBR_256000 == 256000

NOPARITY == 0
ODDPARITY == 1
EVENPARITY == 2

ONESTOPBIT == 0
TWOSTOPBITS == 2

\* masks of the flag word, as sets of bit positions
fOutxCtsFlow == {2}
fOutX == {8}
fInX == {9}
fRtsControl == {12, 13}

WordBits == 0..31

BitNot(m) == WordBits \ m

-----------------------------------------------------------------------------
(* COMSettings: logical values *)

Baud(name) == <<name>>
BaudOther(n) == <<"BaudOther", n>>

NamedBauds ==
    {"Baud110", "Baud300", "Baud600", "Baud1200", "Baud2400", "Baud4800",
     "Baud9600", "Baud19200", "Baud38400", "Baud57600", "Baud115200"}

CharSizes == {"Bits5", "Bits6", "Bits7", "Bits8"}
Parities == {"ParityNone", "ParityOdd", "ParityEven"}
StopBitsValues == {"Stop1", "Stop2"}
FlowControls == {"FlowNone", "FlowSoftware", "FlowHardware"}

-----------------------------------------------------------------------------
(* COMSettings: getters *)

baud_rate(self) ==
    LET n == self.BaudRate
    IN  CASE n = CBR_110    -> Some(Baud("Baud110"))
          [] n = CBR_300    -> Some(Baud("Baud300"))
          [] n = CBR_600    -> Some(Baud("Baud600"))
          [] n = CBR_1200   -> Some(Baud("Baud1200"))
          [] n = CBR_2400   -> Some(Baud("Baud2400"))
          [] n = CBR_4800   -> Some(Baud("Baud4800"))
          [] n = CBR_9600   -> Some(Baud("Baud9600"))
          [] n = CBR_14400  -> Some(BaudOther(U64(0, 14400)))
          [] n = CBR_19200  -> Some(Baud("Baud19200"))
          [] n = CBR_38400  -> Some(Baud("Baud38400"))
          [] n = CBR_56000  -> Some(BaudOther(U64(0, 56000)))
          [] n = CBR_57600  -> Some(Baud("Baud57600"))
          [] n = CBR_115200 -> Some(Baud("Baud115200"))
          [] n = CBR_128000 -> Some(BaudOther(U64(0, 128000)))
          [] n = CBR_256000 -> Some(BaudOther(U64(0, 256000)))
          [] OTHER          -> Some(BaudOther(DWORDAsU64(n)))

char_size(self) ==
    CASE self.ByteSize = 5 -> Some("Bits5")
      [] self.ByteSize = 6 -> Some("Bits6")
      [] self.ByteSize = 7 -> Some("Bits7")
      [] self.ByteSize = 8 -> Some("Bits8")
      [] OTHER             -> None

parity(self) ==
    CASE self.Parity = ODDPARITY  -> Some("ParityOdd")
      [] self.Parity = EVENPARITY -> Some("ParityEven")
      [] self.Parity = NOPARITY   -> Some("ParityNone")
      [] OTHER                    -> None

stop_bits(self) ==
    CASE self.StopBits = TWOSTOPBITS -> Some("Stop2")
      [] self.StopBits = ONESTOPBIT  -> Some("Stop1")
      [] OTHER                       -> None

flow_control(self) ==
    IF self.fBits \cap (fOutxCtsFlow \cup fRtsControl) # {}
    THEN Some("FlowHardware")
    ELSE IF self.fBits \cap (fOutX \cup fInX) # {}
    THEN Some("FlowSoftware")
    ELSE Some("FlowNone")

-----------------------------------------------------------------------------
(* COMSettings: setters *)

set_baud_rate_clobber(self, rate) ==
    [self EXCEPT !.BaudRate = CBR_9600, !.fBits = {}]

set_baud_rate(self, rate) ==
    [self EXCEPT !.BaudRate =
        CASE rate = Baud("Baud110")    -> CBR_110
          [] rate = Baud("Baud300")    -> CBR_300
          [] rate = Baud("Baud600")    -> CBR_600
          [] rate = Baud("Baud1200")   -> CBR_1200
          [] rate = Baud("Baud2400")   -> CBR_2400
          [] rate = Baud("Baud4800")   -> CBR_4800
          [] rate = Baud("Baud9600")   -> CBR_9600
          [] rate = Baud("Baud19200")  -> CBR_19200
          [] rate = Baud("Baud38400")  -> CBR_38400
          [] rate = Baud("Baud57600")  -> CBR_57600
          [] rate = Baud("Baud115200") -> CBR_115200
          [] OTHER                          -> AsDWORD(rate[2])]

set_char_size(self, size) ==
    [self EXCEPT !.ByteSize =
        CASE size = "Bits5" -> 5
          [] size = "Bits6" -> 6
          [] size = "Bits7" -> 7
          [] size = "Bits8" -> 8]

set_parity_swapped(self, p) ==
    [self EXCEPT !.Parity =
        CASE p = "ParityNone" -> NOPARITY
          [] p = "ParityOdd"  -> EVENPARITY
          [] p = "ParityEven" -> ODDPARITY]

set_parity(self, p) ==
    [self EXCEPT !.Parity =
        CASE p = "ParityNone" -> NOPARITY
          [] p = "ParityOdd"  -> ODDPARITY
          [] p = "ParityEven" -> EVENPARITY]

set_stop_bits(self, sb) ==
    [self EXCEPT !.StopBits =
        CASE sb = "Stop1" -> ONESTOPBIT
          [] sb = "Stop2" -> TWOSTOPBITS]

set_flow_control_no_clear(self, fc) ==
    CASE fc = "FlowNone" ->
           [self EXCEPT !.fBits = @ \cap BitNot(fOutX \cup fInX)]
      [] fc = "FlowSoftware" ->
           [self EXCEPT !.fBits = @ \cup (fOutX \cup fInX)]
      [] fc = "FlowHardware" ->
           [self EXCEPT !.fBits = @ \cup (fOutxCtsFlow \cup fRtsControl)]

set_flow_control(self, fc) ==
    CASE fc = "FlowNone" ->
           [self EXCEPT !.fBits =
               (@ \cap BitNot(fOutxCtsFlow \cup fRtsControl)) \cap BitNot(fOutX \cup fInX)]
      [] fc = "FlowSoftware" ->
           [self EXCEPT !.fBits =
               (@ \cap BitNot(fOutxCtsFlow \cup fRtsControl)) \cup (fOutX \cup fInX)]
      [] fc = "FlowHardware" ->
           [self EXCEPT !.fBits =
               (@ \cup (fOutxCtsFlow \cup fRtsControl)) \cap BitNot(fOutX \cup fInX)]

-----------------------------------------------------------------------------
(* COMPort: the state machine *)

Durations ==
    {from_millis(100), from_millis(50),
     [secs |-> 0, nanos |-> 500000],
     [secs |-> 4294968, nanos |-> 0]}

DefaultDCB ==
    [BaudRate |-> 0, ByteSize |-> 0, Parity |-> 0, StopBits |-> 0, fBits |-> {}]

NoCall == [op |-> "none", arg |-> "none"]

Init ==
    /\ ports = [s \in Slots |-> NoPort]
    /\ os = OsInit
    /\ ret = [op |-> "none"]
    /\ explicitSet = [s \in Slots |-> None]
    /\ settings = DefaultDCB
    /\ call = NoCall

Begin == [os EXCEPT !.log = <<>>]

SettingsIdle == UNCHANGED <<settings, call>>

Open(s, name, ok, errno) ==
    /\ ~Live(s)
    /\ \A q \in Slots : q < s => Live(q)
    /\ Len(os.hdev) < MaxHandles
    /\ LET r == open(Begin, name, ok, errno)
       IN  /\ os' = r.os
           /\ ports' = [ports EXCEPT ![s] = r.port]
           /\ ret' = [op |-> "open", slot |-> s, name |-> name, res |-> r.res]
    /\ explicitSet' = [explicitSet EXCEPT ![s] = None]
    /\ SettingsIdle

Drop(s) ==
    /\ Live(s)
    /\ os' = drop(Begin, ports[s])
    /\ ports' = [ports EXCEPT ![s] = NoPort]
    /\ ret' = [op |-> "drop", slot |-> s]
    /\ explicitSet' = [explicitSet EXCEPT ![s] = None]
    /\ SettingsIdle

SetTimeout(s, d, ok, errno) ==
    /\ Live(s)
    /\ LET r == set_timeout(Begin, ports[s], d, ok, errno)
       IN  /\ os' = r.os
           /\ ports' = [ports EXCEPT ![s] = r.port]
           /\ ret' = [op |-> "set_timeout", slot |-> s, d |-> d, res |-> r.res]
    /\ explicitSet' = IF ok THEN [explicitSet EXCEPT ![s] = Some(d)] ELSE explicitSet
    /\ SettingsIdle

Read(s, buflen, osret, len, errno) ==
    /\ Live(s)
    /\ len <= buflen
    /\ LET r == read(Begin, ports[s], osret, len, errno)
       IN  /\ os' = r.os
           /\ ret' = [op |-> "read", slot |-> s, osret |-> osret, len |-> len,
                      errno |-> errno, res |-> r.res]
    /\ UNCHANGED <<ports, explicitSet>>
    /\ SettingsIdle

Write(s, buflen, osret, len, errno) ==
    /\ Live(s)
    /\ len <= buflen
    /\ LET r == write(Begin, ports[s], osret, len, errno)
       IN  /\ os' = r.os
           /\ ret' = [op |-> "write", slot |-> s, res |-> r.res]
    /\ UNCHANGED <<ports, explicitSet>>
    /\ SettingsIdle

Flush(s, osret, errno) ==
    /\ Live(s)
    /\ LET r == flush(Begin, ports[s], osret, errno)
       IN  /\ os' = r.os
           /\ ret' = [op |-> "flush", slot |-> s, res |-> r.res]
    /\ UNCHANGED <<ports, explicitSet>>
    /\ SettingsIdle

SetRts(s, level, osret, errno) ==
    /\ Live(s)
    /\ LET r == set_rts(Begin, ports[s], level, osret, errno)
       IN  /\ os' = r.os
           /\ ret' = [op |-> "set_rts", slot |-> s, res |-> r.res]
    /\ UNCHANGED <<ports, explicitSet>>
    /\ SettingsIdle

ReadPin(s, osret, status, errno) ==
    /\ Live(s)
    /\ LET r == read_pin(Begin, ports[s], osret, status, {4}, errno)
       IN  /\ os' = r.os
           /\ ret' = [op |-> "read_cts", slot |-> s, res |-> r.res]
    /\ UNCHANGED <<ports, explicitSet>>
    /\ SettingsIdle

\* what a device call reports: success, or the error code left for GetLastError
Outcomes == {"OK"} \cup CallErrors

OsRet(out) == IF out = "OK" THEN 1 ELSE 0

Next ==
    \/ \E s \in Slots, name \in PortNames, out \in Outcomes :
          Open(s, name, out = "OK", out)
    \/ \E s \in Slots : Drop(s)
    \/ \E s \in Slots, d \in Durations, out \in Outcomes :
          SetTimeout(s, d, out = "OK", out)
    \/ \E s \in Slots, n \in 0..MaxLen, out \in Outcomes :
          Read(s, MaxLen, OsRet(out), n, out)
    \/ \E s \in Slots, n \in 0..MaxLen, out \in Outcomes :
          Write(s, MaxLen, OsRet(out), n, out)
    \/ \E s \in Slots, out \in Outcomes : Flush(s, OsRet(out), out)
    \/ \E s \in Slots, l \in BOOLEAN, out \in Outcomes : SetRts(s, l, OsRet(out), out)
    \/ \E s \in Slots, st \in {{}, {4}}, out \in Outcomes :
          ReadPin(s, OsRet(out), st, out)

Spec == Init /\ [][Next]_vars

-----------------------------------------------------------------------------
(* Properties of COMPort *)

Owner(h) == {s \in Slots : Live(s) /\ ports[s].handle = h}

InLog(name) == \E i \in 1..Len(os.log) : os.log[i] = name

\* C1: every handle CreateFileW returned as valid is passed to CloseHandle
\* exactly once when its COMPort goes away (dropped by the caller, or dropped
\* inside open when the initial set_timeout fails) and not before; no handle is
\* closed twice, no two COMPorts hold the same handle, and CloseHandle is never
\* called with a handle CreateFileW did not issue, in particular not for an
\* open that got INVALID_HANDLE_VALUE.
HandleReleasedExactlyOnce ==
    /\ ~os.badClose
    /\ \A h \in 1..Len(os.hdev) :
          /\ os.closes[h] <= 1
          /\ Cardinality(Owner(h)) <= 1
          /\ os.closes[h] = 1 <=> Owner(h) = {}
          /\ h \in os.live <=> Owner(h) # {}
    /\ \A s \in Slots : Live(s) => ports[s].handle \in 1..Len(os.hdev)
    /\ (ret.op = "open" /\ ~InLog("SetCommTimeouts")) => ~InLog("CloseHandle")

\* two handles were issued; the first was opened successfully (its device
\* carries the 100 ms timeout) and later dropped, the second was closed inside
\* an open whose set_timeout failed
BothReleasePaths ==
    /\ ret.op = "open" /\ ret.res.kind # "Ok"
    /\ os.log = <<"CreateFileW", "SetCommTimeouts", "CloseHandle">>
    /\ Len(os.hdev) = 2
    /\ os.hdev[1] # os.hdev[2]
    /\ os.timeouts[os.hdev[1]].ReadTotalTimeoutConstant = 100
    /\ os.closes = <<1, 1>>

\* C2: a port opened successfully reports a timeout of 100 ms until a
\* set_timeout succeeds, and from then on reports exactly the Duration of the
\* last successful set_timeout, whatever other operations (failed set_timeout
\* included) happen in between.
TimeoutReadsBack ==
    \A s \in Slots : Live(s) =>
        IF explicitSet[s] = None
        THEN timeout(ports[s]) = from_millis(100)
        ELSE Some(timeout(ports[s])) = explicitSet[s]

\* a set_timeout with another Duration has just failed on a port whose last
\* successful set_timeout was 50 ms
FailedSetAfterSet ==
    /\ ret.op = "set_timeout" /\ ret.res.kind # "Ok"
    /\ Live(ret.slot)
    /\ explicitSet[ret.slot] = Some(from_millis(50))
    /\ ret.d # from_millis(50)

\* C3: for every open COMPort, the read-timeout constant the OS holds for its
\* device equals the cached timeout expressed in milliseconds.
TimeoutInSync ==
    \A s \in Slots : Live(s) =>
        DWORDAsU64(os.timeouts[os.hdev[ports[s].handle]].ReadTotalTimeoutConstant)
            = as_millis(timeout(ports[s]))

\* C4: read is decided by the return code of ReadFile first and the byte count
\* second: failure gives an I/O error with the OS error, success with zero bytes
\* gives TimedOut, success with N > 0 bytes gives Ok(N); never Ok(0).
ReadOutcomes ==
    ret.op = "read" =>
        /\ ret.osret = 0 => ret.res = Err("Io", ret.errno)
        /\ (ret.osret # 0 /\ ret.len = 0) => ret.res.kind = "TimedOut"
        /\ (ret.osret # 0 /\ ret.len > 0) => ret.res = Ok(ret.len)
        /\ ret.res # Ok(0)

\* ReadFile failed and yet reported a nonzero byte count
FailedReadWithBytes ==
    ret.op = "read" /\ ret.osret = 0 /\ ret.len > 0 /\ ret.res.kind = "Io"

Malformed(name) == \E i \in 1..Len(name) : name[i] = 0

Nonexistent(name) == ~Malformed(name) /\ (DevicePrefix \o name) \notin Devices

\* C5: open of a nonexistent device name gives NoDevice; open of a malformed
\* name gives InvalidInput and issues no CreateFileW call.
OpenRejectsBadNames ==
    ret.op = "open" =>
        /\ Nonexistent(ret.name) => ret.res.kind = "NoDevice"
        /\ Malformed(ret.name) => (ret.res.kind = "InvalidInput" /\ ~InLog("CreateFileW"))

-----------------------------------------------------------------------------
(* COMSettings: the state machine.  A COMSettings value has a private DCB  *)
(* and is only ever obtained from read_settings, so its starting contents  *)
(* are whatever the OS supplies.                                           *)

PortIdle == UNCHANGED <<ports, os, ret, explicitSet>>

PortInit ==
    /\ ports = [s \in Slots |-> NoPort]
    /\ os = OsInit
    /\ ret = [op |-> "none"]
    /\ explicitSet = [s \in Slots |-> None]

\* the arguments given to set_baud_rate: every named rate, and numeric rates
\* below and above 2^32 (usize is 64 bits wide)
BaudArgs ==
    {Baud(b) : b \in NamedBauds}
        \cup {BaudOther(n) : n \in {U64(0, 5), U64(0, 14400), U64(0, 9600),
                                    U64(1, 5), U64(1, 9600)}}

\* flag bits outside the two flow-control groups: fParity and fAbortOnError
OtherFlagBits == {1, 14}

FlowBits == fOutxCtsFlow \cup fRtsControl \cup fOutX \cup fInX

SetBaudRate(r) ==
    /\ settings' = set_baud_rate(settings, r)
    /\ call' = [op |-> "set_baud_rate", arg |-> r]
    /\ PortIdle

SetCharSize(c) ==
    /\ settings' = set_char_size(settings, c)
    /\ call' = [op |-> "set_char_size", arg |-> c]
    /\ PortIdle

SetParity(p) ==
    /\ settings' = set_parity(settings, p)
    /\ call' = [op |-> "set_parity", arg |-> p]
    /\ PortIdle

SetStopBits(sb) ==
    /\ settings' = set_stop_bits(settings, sb)
    /\ call' = [op |-> "set_stop_bits", arg |-> sb]
    /\ PortIdle

SetFlowControl(fc) ==
    /\ settings' = set_flow_control(settings, fc)
    /\ call' = [op |-> "set_flow_control", arg |-> fc, prev |-> flow_control(settings)]
    /\ PortIdle

\* blocks whose fields take recognised and unrecognised physical values, with
\* a few flag words
FieldInit ==
    /\ PortInit
    /\ settings \in [BaudRate : {0, CBR_9600, CBR_256000},
                     ByteSize : {4, 8, 9},
                     Parity   : {NOPARITY, 3},
                     StopBits : {ONESTOPBIT, 1, 3},
                     fBits    : {{}, {1}, {1, 2, 8, 14}, {9, 12, 13, 14}}]
    /\ call = NoCall

FieldNext ==
    \/ \E r \in BaudArgs : SetBaudRate(r)
    \/ \E c \in CharSizes : SetCharSize(c)
    \/ \E p \in Parities : SetParity(p)
    \/ \E sb \in StopBitsValues : SetStopBits(sb)
    \/ \E fc \in FlowControls : SetFlowControl(fc)

FieldSpec == FieldInit /\ [][FieldNext]_vars

\* blocks with every flag word over the flow-control bits and two others
FlowInit ==
    /\ PortInit
    /\ settings \in [BaudRate : {CBR_9600}, ByteSize : {8}, Parity : {NOPARITY},
                     StopBits : {ONESTOPBIT},
                     fBits    : SUBSET (FlowBits \cup OtherFlagBits)]
    /\ call = NoCall

FlowNext == \E fc \in FlowControls : SetFlowControl(fc)

FlowSpec == FlowInit /\ [][FlowNext]_vars

-----------------------------------------------------------------------------
(* Properties of COMSettings *)

HardwareBits == fOutxCtsFlow \cup fRtsControl
SoftwareBits == fOutX \cup fInX

\* C6: right after set_flow_control(m), on any starting flag word,
\* flow_control() returns exactly m.
FlowControlReadBack ==
    call.op = "set_flow_control" => flow_control(settings) = Some(call.arg)

\* software flow control was just set on a block that read as hardware
SoftwareAfterHardware ==
    /\ call.op = "set_flow_control" /\ call.arg = "FlowSoftware"
    /\ call.prev = Some("FlowHardware")
    /\ settings.fBits \cap OtherFlagBits # {}

\* C7: flow_control() is hardware only when RTS/CTS bits are set and the
\* XON/XOFF bits are clear, software only when XON/XOFF bits are set and the
\* RTS/CTS bits are clear, none only when both groups are clear.
FlowControlDerivedView ==
    /\ flow_control(settings) = Some("FlowHardware") =>
          (settings.fBits \cap HardwareBits # {} /\ settings.fBits \cap SoftwareBits = {})
    /\ flow_control(settings) = Some("FlowSoftware") =>
          (settings.fBits \cap SoftwareBits # {} /\ settings.fBits \cap HardwareBits = {})
    /\ flow_control(settings) = Some("FlowNone") =>
          (settings.fBits \cap SoftwareBits = {} /\ settings.fBits \cap HardwareBits = {})

NamedRateValues ==
    {CBR_110, CBR_300, CBR_600, CBR_1200, CBR_2400, CBR_4800, CBR_9600,
     CBR_19200, CBR_38400, CBR_57600, CBR_115200}

MatchesNamedRate(n) == n.hi = 0 /\ n.lo \in NamedRateValues

\* C8: set_baud_rate(r) then baud_rate() gives Some(r) for every named rate,
\* and for every BaudOther(n) whose n matches no named rate, values of n above
\* 32 bits included.
BaudRateRoundTrip ==
    call.op = "set_baud_rate" =>
        IF call.arg[1] = "BaudOther"
        THEN ~MatchesNamedRate(call.arg[2]) => baud_rate(settings) = Some(call.arg)
        ELSE baud_rate(settings) = Some(call.arg)

\* C9: each of set_char_size, set_parity, set_stop_bits stores one recognised
\* physical code and the matching getter then returns the value set; a
\* physical value the getter does not recognise reads as None.
FieldTranslation ==
    /\ call.op = "set_char_size" =>
          (settings.ByteSize \in 5..8 /\ char_size(settings) = Some(call.arg))
    /\ call.op = "set_parity" =>
          (settings.Parity \in {NOPARITY, ODDPARITY, EVENPARITY}
             /\ parity(settings) = Some(call.arg))
    /\ call.op = "set_stop_bits" =>
          (settings.StopBits \in {ONESTOPBIT, TWOSTOPBITS}
             /\ stop_bits(settings) = Some(call.arg))
    /\ settings.ByteSize \notin 5..8 => char_size(settings) = None
    /\ settings.Parity \notin {NOPARITY, ODDPARITY, EVENPARITY} => parity(settings) = None
    /\ settings.StopBits \notin {ONESTOPBIT, TWOSTOPBITS} => stop_bits(settings) = None

\* odd parity was just set on a block whose byte size and stop bits are
\* unrecognised
ParitySetOnOddBlock ==
    /\ call.op = "set_parity" /\ call.arg = "ParityOdd"
    /\ settings.ByteSize = 9
    /\ settings.StopBits = 3

SameExcept(a, b, field) == \A f \in DOMAIN a : f # field => a[f] = b[f]

\* C10: set_flow_control changes no bit of the flag word outside the RTS/CTS
\* and XON/XOFF groups and no other field; set_baud_rate, set_char_size,
\* set_parity and set_stop_bits each change their own field only.
SetterFrame ==
    /\ call'.op = "set_flow_control" =>
          /\ settings'.fBits \ FlowBits = settings.fBits \ FlowBits
          /\ SameExcept(settings', settings, "fBits")
    /\ call'.op = "set_baud_rate" => SameExcept(settings', settings, "BaudRate")
    /\ call'.op = "set_char_size" => SameExcept(settings', settings, "ByteSize")
    /\ call'.op = "set_parity" => SameExcept(settings', settings, "Parity")
    /\ call'.op = "set_stop_bits" => SameExcept(settings', settings, "StopBits")

SettersChangeOwnPartOnly == [][SetterFrame]_vars

\* a baud rate was just set on a block that still carries flags of both groups
\* and unrecognised field values
BaudSetOnMixedBlock ==
    /\ call.op = "set_baud_rate" /\ call.arg = Baud("Baud115200")
    /\ settings.fBits = {1, 2, 8, 14}
    /\ settings.ByteSize = 9
    /\ settings.Parity = 3

====
